---------------------------- MODULE Spec2Model ----------------------------
(***************************************************************************)
(* Model of the vectorized type/column layer of Doris:                     *)
(*   be/src/vec/data_types/data_type_factory.hpp   (DataTypeFactory)       *)
(*   be/src/vec/core/column_with_type_and_name.cpp (ColumnWithTypeAndName) *)
(*                                                                         *)
(* Spec    : worker threads calling DataTypeFactory::instance(), get(name) *)
(*           and get(type).                                                *)
(* SpecCol : the ColumnWithTypeAndName member functions applied to values  *)
(*           drawn from a bounded set.                                     *)
(***************************************************************************)
EXTENDS Naturals, Sequences, FiniteSets

(***************************************************************************)
(* Bounds of the model.                                                    *)
(***************************************************************************)
\* worker threads
NumThreads == 2
\* entries of base_type_map that the population loop visits
MaxPrims == 2
\* calls of get(name) / get(type) made in one behaviour
MaxCalls == 2
\* rows a column holds
MaxRows == 2

Threads == 1..NumThreads

(***************************************************************************)
(* IDataType.  A type is the sequence of its tags from the outside in:     *)
(* <<"Int8">>, <<"Array", "Int8">>, <<"Array", "Nullable", "Int8">>.       *)
(* A null DataTypePtr is the empty sequence.                               *)
(***************************************************************************)
NullPtr == <<>>

DataTypeArray(nested) == <<"Array">> \o nested

DataTypeNullable(nested) == <<"Nullable">> \o nested

is_nullable(type) == Head(type) = "Nullable"

get_nested_type(type) == Tail(type)

\* IDataType::equals: same tag and, for Array / Nullable, equal nested types
RECURSIVE equals(_, _)
equals(a, b) ==
    IF Len(a) = 0 \/ Len(b) = 0 THEN Len(a) = Len(b)
    ELSE /\ Head(a) = Head(b)
         /\ equals(Tail(a), Tail(b))

\* IDataType::get_name
RECURSIVE type_get_name(_)
type_get_name(type) ==
    IF Len(type) = 1 THEN type[1]
    ELSE Head(type) \o "(" \o type_get_name(Tail(type)) \o ")"

(***************************************************************************)
(* DataTypeFactory                                                         *)
(***************************************************************************)
\* the keys of base_type_map, in the order of the initializer list
BaseTypeNames ==
    << "UInt8", "UInt16", "UInt32", "UInt64", "Int8", "Int16", "Int32",
       "Int64", "Int128", "Float32", "Float64", "Date", "DateTime", "String",
       "Decimal" >>

\* base_type_map, cut to its first MaxPrims entries: key -> primitive type
base_type_map == [key \in {BaseTypeNames[i] : i \in 1..MaxPrims} |-> <<key>>]

\* the value std::string _empty_string holds
empty_string == ""

\* the factory object: _data_type_map and _invert_data_type_map
EmptyFactory ==
    [data_type_map |-> [n \in {} |-> NullPtr], invert_data_type_map |-> <<>>]

\* std::unordered_map::emplace: inserts only when the key is absent
map_emplace(m, name, type) ==
    IF name \in DOMAIN m THEN m
    ELSE [n \in DOMAIN m \cup {name} |-> IF n = name THEN type ELSE m[n]]

register_data_type(f, name, type) ==
    [data_type_map |-> map_emplace(f.data_type_map, name, type),
     invert_data_type_map |-> Append(f.invert_data_type_map, <<type, name>>)]

\* one iteration of the population loop, for the entry (key, val)
populate_entry(f, key, val) ==
    LET f1 == register_data_type(f, key, val)
        f2 == register_data_type(f1, "Array(" \o key \o ")", DataTypeArray(val))
    IN  register_data_type(f2, "Array(Nullable(" \o key \o "))",
                           DataTypeArray(DataTypeNullable(val)))

\* get(const DataTypePtr&): the scan of _invert_data_type_map
RECURSIVE scan_inverse(_, _, _)
scan_inverse(inv, i, type_ptr) ==
    IF i > Len(inv) THEN empty_string
    ELSE IF equals(inv[i][1], type_ptr) THEN inv[i][2]
    ELSE scan_inverse(inv, i + 1, type_ptr)

\* get(const DataTypePtr&) as it would be without the is_nullable() branch
get_by_type_no_unwrap(inv, data_type) == scan_inverse(inv, 1, data_type)

\* get(const DataTypePtr&); data_type is not null
get_by_type(inv, data_type) ==
    LET type_ptr == IF is_nullable(data_type) THEN get_nested_type(data_type)
                    ELSE data_type
    IN  scan_inverse(inv, 1, type_ptr)

\* the pointer get(const std::string&) returns: the mapped one, or the
\* value-initialized one of the node operator[] inserts
get_by_name(m, name) == IF name \in DOMAIN m THEN m[name] ELSE NullPtr

\* operator[] on a miss: inserts the key with a value-initialized DataTypePtr
subscript_insert(m, name) == map_emplace(m, name, NullPtr)

\* a node for `name` linked in front of an existing one: lookups of `name`
\* now find the value-initialized node
subscript_shadow(m, name) ==
    [n \in DOMAIN m \cup {name} |-> IF n = name THEN NullPtr ELSE m[n]]

(***************************************************************************)
(* State of the registry and of the threads that use it.                   *)
(***************************************************************************)
VARIABLES
    oc,               \* static std::once_flag oc
    instance,         \* static DataTypeFactory instance: its two containers
    visited,          \* keys of base_type_map the population loop has done
    population_runs,  \* executions of the call_once body so far
    pc,               \* pc[t]: where thread t is
    arg,              \* arg[t]: name passed to the current / last get(name)
    ret,              \* ret[t]: DataTypePtr the last get(name) returned
    targ,             \* targ[t]: type passed to the last get(type)
    tname,            \* tname[t]: name the last get(type) returned
    raced,            \* threads whose access in progress conflicts with another
    crashed,          \* the process has died
    calls,            \* get calls started so far
    lhs,              \* the ColumnWithTypeAndName a member function runs on
    rhs,              \* the `other` of operator==
    out               \* what the last member function did and returned

regvars == << oc, instance, visited, population_runs, pc, arg, ret, targ,
              tname, raced, crashed, calls >>

colvars == << lhs, rhs, out >>

\* names the population step registers for one key
NamesOf(key) == {key, "Array(" \o key \o ")", "Array(Nullable(" \o key \o "))"}

RegisteredNames == UNION {NamesOf(key) : key \in DOMAIN base_type_map}

\* names callers pass to get(name): every primitive, the two Array names of
\* the first one, and a name that is not registered
LookupNames ==
    DOMAIN base_type_map \cup NamesOf(BaseTypeNames[1]) \cup {"Bitmap"}

\* what callers build from a type T before they pass it to get(type)
Forms == {"T", "Nullable(T)", "Nullable(Nullable(T))"}

ApplyForm(form, T) ==
    CASE form = "T" -> T
      [] form = "Nullable(T)" -> DataTypeNullable(T)
      [] OTHER -> DataTypeNullable(DataTypeNullable(T))

RegInit ==
    /\ oc = "uninitialized"
    /\ instance = EmptyFactory
    /\ visited = {}
    /\ population_runs = 0
    /\ pc = [t \in Threads |-> "start"]
    /\ arg = [t \in Threads |-> ""]
    /\ ret = [t \in Threads |-> NullPtr]
    /\ targ = [t \in Threads |-> NullPtr]
    /\ tname = [t \in Threads |-> ""]
    /\ raced = {}
    /\ crashed = FALSE
    /\ calls = 0

\* threads inside operator[] on _data_type_map
Reading == {t \in Threads : pc[t] = "find"}
Writing == {t \in Threads : pc[t] = "insert"}

\* a thread calls DataTypeFactory::instance(); the results of its earlier
\* calls go out of scope
InstanceCall(t) ==
    /\ ~crashed
    /\ pc[t] \in {"start", "returned"}
    /\ pc' = [pc EXCEPT ![t] = "call_once"]
    /\ arg' = [arg EXCEPT ![t] = ""]
    /\ ret' = [ret EXCEPT ![t] = NullPtr]
    /\ targ' = [targ EXCEPT ![t] = NullPtr]
    /\ tname' = [tname EXCEPT ![t] = ""]
    /\ UNCHANGED colvars
    /\ UNCHANGED << oc, instance, visited, population_runs, raced, crashed,
                    calls >>

\* call_once as it would be with a plain "not yet done" test: a caller that
\* finds the body running runs it too
CallOnceEnterUnguarded(t) ==
    /\ ~crashed
    /\ pc[t] = "call_once"
    /\ oc \in {"uninitialized", "initializing"}
    /\ oc' = "initializing"
    /\ population_runs' = population_runs + 1
    /\ pc' = [pc EXCEPT ![t] = "populate"]
    /\ UNCHANGED colvars
    /\ UNCHANGED << instance, visited, arg, ret, targ, tname, raced, crashed,
                    calls >>

\* std::call_once: the first caller becomes the one that runs the body
CallOnceEnter(t) ==
    /\ ~crashed
    /\ pc[t] = "call_once"
    /\ oc = "uninitialized"
    /\ oc' = "initializing"
    /\ population_runs' = population_runs + 1
    /\ pc' = [pc EXCEPT ![t] = "populate"]
    /\ UNCHANGED colvars
    /\ UNCHANGED << instance, visited, arg, ret, targ, tname, raced, crashed,
                    calls >>

\* one iteration of `for (auto const& [key, val] : base_type_map)`; an
\* unordered_map gives the keys in an unspecified order
PopulateStep(t) ==
    /\ ~crashed
    /\ pc[t] = "populate"
    /\ \E key \in DOMAIN base_type_map \ visited :
          /\ instance' = populate_entry(instance, key, base_type_map[key])
          /\ visited' = visited \cup {key}
    /\ UNCHANGED colvars
    /\ UNCHANGED << oc, population_runs, pc, arg, ret, targ, tname, raced,
                    crashed, calls >>

\* the body returns: call_once marks the flag and instance() returns
PopulateDone(t) ==
    /\ ~crashed
    /\ pc[t] = "populate"
    /\ visited = DOMAIN base_type_map
    /\ oc' = "ready"
    /\ pc' = [pc EXCEPT ![t] = "returned"]
    /\ UNCHANGED colvars
    /\ UNCHANGED << instance, visited, population_runs, arg, ret, targ, tname,
                    raced, crashed, calls >>

\* std::call_once on a flag already set: returns at once; a caller that
\* finds the body running stays blocked in call_once until then
CallOnceReturn(t) ==
    /\ ~crashed
    /\ pc[t] = "call_once"
    /\ oc = "ready"
    /\ pc' = [pc EXCEPT ![t] = "returned"]
    /\ UNCHANGED colvars
    /\ UNCHANGED << oc, instance, visited, population_runs, arg, ret, targ,
                    tname, raced, crashed, calls >>

\* get(name): the thread enters _data_type_map[name] and starts the lookup
GetNameCall(t, name) ==
    /\ ~crashed
    /\ pc[t] = "returned"
    /\ calls < MaxCalls
    /\ calls' = calls + 1
    /\ pc' = [pc EXCEPT ![t] = "find"]
    /\ arg' = [arg EXCEPT ![t] = name]
    /\ ret' = [ret EXCEPT ![t] = NullPtr]
    /\ targ' = [targ EXCEPT ![t] = NullPtr]
    /\ tname' = [tname EXCEPT ![t] = ""]
    /\ raced' = IF Writing # {} THEN raced \cup Writing \cup {t} ELSE raced
    /\ UNCHANGED colvars
    /\ UNCHANGED << oc, instance, visited, population_runs, crashed >>

\* the lookup finds the key: get returns a copy of the mapped pointer
GetNameHit(t) ==
    /\ ~crashed
    /\ pc[t] = "find"
    /\ arg[t] \in DOMAIN instance.data_type_map
    /\ ret' = [ret EXCEPT ![t] = instance.data_type_map[arg[t]]]
    /\ pc' = [pc EXCEPT ![t] = "returned"]
    /\ raced' = raced \ {t}
    /\ UNCHANGED colvars
    /\ UNCHANGED << oc, instance, visited, population_runs, arg, targ, tname,
                    crashed, calls >>

\* the lookup does not find the key and operator[] goes on to insert it.  A
\* lookup that runs while another thread inserts (a data race) may also
\* miss a key that is present.
GetNameMiss(t) ==
    /\ ~crashed
    /\ pc[t] = "find"
    /\ arg[t] \notin DOMAIN instance.data_type_map \/ t \in raced
    /\ pc' = [pc EXCEPT ![t] = "insert"]
    /\ raced' = IF (Reading \cup Writing) \ {t} # {}
                THEN raced \cup Reading \cup Writing
                ELSE raced
    /\ UNCHANGED colvars
    /\ UNCHANGED << oc, instance, visited, population_runs, arg, ret, targ,
                    tname, crashed, calls >>

\* operator[] links the new node and get returns the value-initialized pointer
GetNameInsert(t) ==
    /\ ~crashed
    /\ pc[t] = "insert"
    /\ instance' = [instance EXCEPT !.data_type_map =
                       IF t \in raced THEN subscript_shadow(@, arg[t])
                       ELSE subscript_insert(@, arg[t])]
    /\ ret' = [ret EXCEPT ![t] = NullPtr]
    /\ pc' = [pc EXCEPT ![t] = "returned"]
    /\ raced' = raced \ {t}
    /\ UNCHANGED colvars
    /\ UNCHANGED << oc, visited, population_runs, arg, targ, tname, crashed,
                    calls >>

\* an insert that raced with another insert may leave its node unlinked
GetNameInsertLost(t) ==
    /\ ~crashed
    /\ pc[t] = "insert"
    /\ t \in raced
    /\ ret' = [ret EXCEPT ![t] = NullPtr]
    /\ pc' = [pc EXCEPT ![t] = "returned"]
    /\ raced' = raced \ {t}
    /\ UNCHANGED colvars
    /\ UNCHANGED << oc, instance, visited, population_runs, arg, targ, tname,
                    crashed, calls >>

\* an access that raced follows a dangling or half-linked node
RaceCrash(t) ==
    /\ ~crashed
    /\ pc[t] \in {"find", "insert"}
    /\ t \in raced
    /\ crashed' = TRUE
    /\ UNCHANGED colvars
    /\ UNCHANGED << oc, instance, visited, population_runs, pc, arg, ret,
                    targ, tname, raced, calls >>

\* get(type) with a type built from the pointer the last get(name) returned
GetType(t, form) ==
    /\ ~crashed
    /\ pc[t] = "returned"
    /\ calls < MaxCalls
    /\ ret[t] # NullPtr
    /\ calls' = calls + 1
    /\ targ' = [targ EXCEPT ![t] = ApplyForm(form, ret[t])]
    /\ tname' = [tname EXCEPT
                   ![t] = get_by_type(instance.invert_data_type_map, targ'[t])]
    /\ UNCHANGED colvars
    /\ UNCHANGED << oc, instance, visited, population_runs, pc, arg, ret,
                    raced, crashed >>

\* get(type) with the null pointer a missed get(name) returned:
\* data_type->is_nullable() is a virtual call through a null pointer
GetTypeNull(t) ==
    /\ ~crashed
    /\ pc[t] = "returned"
    /\ calls < MaxCalls
    /\ arg[t] # ""
    /\ ret[t] = NullPtr
    /\ calls' = calls + 1
    /\ crashed' = TRUE
    /\ UNCHANGED colvars
    /\ UNCHANGED << oc, instance, visited, population_runs, pc, arg, ret,
                    targ, tname, raced >>

RegNext ==
    \E t \in Threads :
        \/ InstanceCall(t)
        \/ CallOnceEnter(t)
        \/ PopulateStep(t)
        \/ PopulateDone(t)
        \/ CallOnceReturn(t)
        \/ \E name \in LookupNames : GetNameCall(t, name)
        \/ GetNameHit(t)
        \/ GetNameMiss(t)
        \/ GetNameInsert(t)
        \/ GetNameInsertLost(t)
        \/ RaceCrash(t)
        \/ \E form \in Forms : GetType(t, form)
        \/ GetTypeNull(t)

(***************************************************************************)
(* IColumn.  A column is [name, data]: what get_name() returns and the     *)
(* rows.  A ColumnPtr is <<>> (null) or <<column>>.                        *)
(***************************************************************************)
Digits == << "0", "1", "2", "3", "4", "5", "6", "7", "8", "9" >>

\* operator<< of an unsigned number
RECURSIVE NatStr(_)
NatStr(n) ==
    IF n < 10 THEN Digits[n + 1]
    ELSE NatStr(n \div 10) \o Digits[(n % 10) + 1]

NullColumn == <<>>

col_size(c) == Len(c.data)

col_get_name(c) == c.name

\* IColumn::clone_empty: a new column of the same kind with no rows
col_clone_empty(c) == [name |-> c.name, data |-> <<>>]

col_is_const(c) == c.name = "Const(Int8)"

\* IColumn::convert_to_full_column_if_const: a constant column becomes a
\* dense column with the value once per row; any other column is returned
col_convert_to_full_column_if_const(c) ==
    IF col_is_const(c) THEN [name |-> "Int8", data |-> c.data] ELSE c

\* IColumn::dump_structure
col_dump_structure(c) == c.name \o "(size = " \o NatStr(col_size(c)) \o ")"

\* IDataType::to_string(column, row_num): the text of one row
type_to_string(type, c, row_num) == NatStr(c.data[row_num + 1])

\* IDataType::to_pb_column_meta: the descriptor written into the record
type_to_pb_column_meta(type, col_meta) == [col_meta EXCEPT !.type = type]

(***************************************************************************)
(* The type objects DataTypePtrs of a ColumnWithTypeAndName point to.  A   *)
(* DataTypePtr is an index into TypePool, or 0 (null).  Objects 1 and 2    *)
(* are distinct objects of equal structure.                                *)
(***************************************************************************)
TypePool == << <<"Int8">>, <<"Int8">>, <<"Nullable", "Int8">> >>

NullType == 0

TypePtrs == 0..Len(TypePool)

Deref(p) == TypePool[p]

(***************************************************************************)
(* ColumnWithTypeAndName: [name, type, column]                             *)
(***************************************************************************)
\* clone_empty as it would be if it copied the column pointer
clone_empty_keeps_rows(self) ==
    [self |-> self,
     res  |-> [name |-> self.name, type |-> self.type, column |-> self.column]]

\* ColumnWithTypeAndName::clone_empty; `self` is the object afterwards
clone_empty(self) ==
    [self |-> self,
     res  |-> [name   |-> self.name,
               type   |-> self.type,
               column |-> IF self.column # NullColumn
                          THEN << col_clone_empty(self.column[1]) >>
                          ELSE NullColumn]]

\* operator== as it would be if only this->type and this->column were
\* tested for null
operator_eq_one_sided(self, other) ==
    /\ self.name = other.name
    /\ \/ self.type = NullType
       \/ (/\ other.type # NullType
           /\ equals(Deref(self.type), Deref(other.type)))
    /\ \/ self.column = NullColumn
       \/ (/\ other.column # NullColumn
           /\ col_get_name(self.column[1]) = col_get_name(other.column[1]))

\* ColumnWithTypeAndName::operator==
operator_eq(self, other) ==
    /\ self.name = other.name
    /\ \/ (self.type = NullType /\ other.type = NullType)
       \/ (/\ self.type # NullType
           /\ other.type # NullType
           /\ equals(Deref(self.type), Deref(other.type)))
    /\ \/ (self.column = NullColumn /\ other.column = NullColumn)
       \/ (/\ self.column # NullColumn
           /\ other.column # NullColumn
           /\ col_get_name(self.column[1]) = col_get_name(other.column[1]))

\* dump_structure as it would be if it dereferenced `type` whenever a
\* column is held and wrote no null marker for the type otherwise
dump_structure_no_type_marker(self) ==
    LET s1 == IF self.name = "" THEN "[Anonymous Column]" ELSE self.name
        s2 == IF self.type # NullType
              THEN s1 \o " " \o type_get_name(Deref(self.type))
              ELSE s1
    IN  IF self.column # NullColumn
        THEN s2 \o " " \o col_dump_structure(self.column[1])
        ELSE s2 \o " nullptr"

\* ColumnWithTypeAndName::dump_structure
dump_structure(self) ==
    LET s1 == IF self.name = "" THEN "[Anonymous Column]" ELSE self.name
        s2 == IF self.type # NullType
              THEN s1 \o " " \o type_get_name(Deref(self.type))
              ELSE s1 \o " nullptr"
    IN  IF self.column # NullColumn
        THEN s2 \o " " \o col_dump_structure(self.column[1])
        ELSE s2 \o " nullptr"

\* a null pointer dereferenced: the access faults, or the call runs on
\* whatever the address holds
NullDerefOutcomes == {"segfault", "garbage"}

\* ColumnWithTypeAndName::to_string: the outcomes [status, text]
to_string(self, row_num) ==
    IF self.type = NullType \/ self.column = NullColumn
    THEN {[status |-> o, text |-> ""] : o \in NullDerefOutcomes}
    ELSE {[status |-> "ok",
           text   |-> type_to_string(
                          Deref(self.type),
                          col_convert_to_full_column_if_const(self.column[1]),
                          row_num)]}

EmptyMeta == [name |-> "", type |-> NullPtr]

\* ColumnWithTypeAndName::to_pb_column_meta: the outcomes [status, meta]
to_pb_column_meta(self, col_meta) ==
    LET named == [col_meta EXCEPT !.name = self.name]
    IN  IF self.type = NullType
        THEN {[status |-> o, meta |-> named] : o \in NullDerefOutcomes}
        ELSE {[status |-> "ok",
               meta   |-> type_to_pb_column_meta(Deref(self.type), named)]}

\* the columns the member functions are tried on
RowData == UNION {[1..n -> {0, 1}] : n \in 0..MaxRows}

ConstData == {[i \in 1..n |-> v] : n \in 0..MaxRows, v \in {0, 1}}

ColumnPtrs ==
    {NullColumn}
        \cup {<< [name |-> "Int8", data |-> d] >> : d \in RowData}
        \cup {<< [name |-> "Const(Int8)", data |-> d] >> : d \in ConstData}

Columns ==
    [name : {"", "c1"}, type : TypePtrs, column : ColumnPtrs]

NoColumn == [name |-> "", type |-> NullType, column |-> NullColumn]

NoOut ==
    [op |-> "none", status |-> "", src |-> NoColumn, res |-> NoColumn,
     flag |-> FALSE, rev |-> FALSE, text |-> "", meta |-> EmptyMeta]

ColIdle ==
    /\ lhs = NoColumn
    /\ rhs = NoColumn
    /\ out = NoOut

ColInit ==
    /\ lhs \in Columns
    /\ rhs \in Columns
    /\ out = NoOut

CloneEmpty ==
    /\ LET r == clone_empty(lhs)
       IN  /\ lhs' = r.self
           /\ out' = [NoOut EXCEPT !.op = "clone_empty", !.status = "ok",
                                   !.src = lhs, !.res = r.res]
    /\ UNCHANGED rhs
    /\ UNCHANGED regvars

\* lhs == rhs, and rhs == lhs
OperatorEq ==
    /\ out' = [NoOut EXCEPT !.op = "operator==", !.status = "ok",
                            !.flag = operator_eq(lhs, rhs),
                            !.rev = operator_eq(rhs, lhs)]
    /\ UNCHANGED << lhs, rhs >>
    /\ UNCHANGED regvars

DumpStructure ==
    /\ out' = [NoOut EXCEPT !.op = "dump_structure", !.status = "ok",
                            !.text = dump_structure(lhs)]
    /\ UNCHANGED << lhs, rhs >>
    /\ UNCHANGED regvars

\* row numbers a caller passes: a row of the column, or 0 when there is none
RowNums(self) ==
    IF self.column = NullColumn \/ col_size(self.column[1]) = 0 THEN {}
    ELSE 0..(col_size(self.column[1]) - 1)

ToString(row_num) ==
    /\ row_num \in RowNums(lhs) \/ (lhs.column = NullColumn /\ row_num = 0)
    /\ \E o \in to_string(lhs, row_num) :
          out' = [NoOut EXCEPT !.op = "to_string", !.status = o.status,
                               !.text = o.text]
    /\ UNCHANGED << lhs, rhs >>
    /\ UNCHANGED regvars

ToPbColumnMeta ==
    /\ \E o \in to_pb_column_meta(lhs, EmptyMeta) :
          out' = [NoOut EXCEPT !.op = "to_pb_column_meta",
                               !.status = o.status, !.meta = o.meta]
    /\ UNCHANGED << lhs, rhs >>
    /\ UNCHANGED regvars

ColNext ==
    \/ CloneEmpty
    \/ OperatorEq
    \/ DumpStructure
    \/ \E row_num \in 0..MaxRows : ToString(row_num)
    \/ ToPbColumnMeta

vars == << regvars, colvars >>

Init == RegInit /\ ColIdle

Next == RegNext

Spec == Init /\ [][Next]_vars

InitCol == RegInit /\ ColInit

NextCol == ColNext

SpecCol == InitCol /\ [][NextCol]_vars


(***************************************************************************)
(* Properties                                                              *)
(***************************************************************************)
ArrayName(key) == "Array(" \o key \o ")"

ArrayNullableName(key) == "Array(Nullable(" \o key \o "))"

InInverse(inv, name) == \E i \in 1..Len(inv) : inv[i][2] = name

\* the registry holds exactly what the population step registers
PopulationComplete(f) ==
    /\ DOMAIN f.data_type_map = RegisteredNames
    /\ Len(f.invert_data_type_map) = 3 * Cardinality(DOMAIN base_type_map)
    /\ \A key \in DOMAIN base_type_map :
          /\ f.data_type_map[key] = <<key>>
          /\ f.data_type_map[ArrayName(key)] = <<"Array", key>>
          /\ f.data_type_map[ArrayNullableName(key)] = <<"Array", "Nullable", key>>
          /\ \A n \in NamesOf(key) :
                \E i \in 1..Len(f.invert_data_type_map) :
                    f.invert_data_type_map[i] = << f.data_type_map[n], n >>

InsideInstance == {"call_once", "populate"}

C1_State ==
    /\ population_runs <= 1
    /\ oc = "uninitialized" =>
          /\ population_runs = 0
          /\ instance = EmptyFactory
          /\ \A t \in Threads : pc[t] \in {"start", "call_once"}
    /\ oc = "initializing" =>
          /\ population_runs = 1
          /\ Cardinality({t \in Threads : pc[t] = "populate"}) = 1
          /\ \A t \in Threads : pc[t] \in {"start", "call_once", "populate"}
    /\ oc = "ready" =>
          /\ population_runs = 1
          /\ visited = DOMAIN base_type_map
          /\ Len(instance.invert_data_type_map)
                 = 3 * Cardinality(DOMAIN base_type_map)
          /\ \A t \in Threads : pc[t] # "populate"

C1_Step ==
    /\ oc' # oc =>
          \/ (oc = "uninitialized" /\ oc' = "initializing")
          \/ (/\ oc = "initializing"
              /\ oc' = "ready"
              /\ PopulationComplete(instance'))
    /\ population_runs' >= population_runs
    /\ \A t \in Threads :
          (pc[t] \in InsideInstance /\ pc'[t] \notin InsideInstance) =>
              /\ oc' = "ready"
              /\ visited' = DOMAIN base_type_map
              /\ \A n \in RegisteredNames :
                    /\ n \in DOMAIN instance'.data_type_map
                    /\ InInverse(instance'.invert_data_type_map, n)

\* C1: with any number of threads in their first instance() call, the
\* call_once body runs exactly once, the registry goes uninitialized ->
\* initializing -> ready and never back, the registry holds exactly the
\* registered entries when it becomes ready, and a call of instance() returns
\* only after that, with every registered name in both containers.
C1_PopulatedOnce == []C1_State /\ [][C1_Step]_vars

\* C1 witness: every thread has returned from its first instance() call and
\* the body has run once.
C1_Witness ==
    /\ NumThreads >= 2
    /\ \A t \in Threads : pc[t] = "returned"
    /\ calls = 0
    /\ oc = "ready"
    /\ population_runs = 1

\* C2: a get(name) for a name that is not registered leaves the forward map
\* and the inverse list as they were before the call.
C2_GetMissLeavesRegistry ==
    [][\A t \in Threads :
          (/\ pc[t] = "insert"
           /\ pc'[t] = "returned"
           /\ arg[t] \notin RegisteredNames) => instance' = instance]_vars

\* C3: once the registry is ready no thread writes it, so no thread is ever
\* inside a write of _data_type_map while another thread reads or writes it.
C3_NoConflictingAccess ==
    oc = "ready" =>
        \A t \in Writing : (Reading \cup Writing) \ {t} = {}

\* C4: for every registered primitive P with T = get(P), get(Nullable(T))
\* returns the name get(T) returns, which is P; one Nullable layer is removed
\* and no more, so Nullable(Nullable(T)) is not found.
C4_NullableUnwrap ==
    /\ oc = "ready" =>
          \A key \in DOMAIN base_type_map :
              LET T == get_by_name(instance.data_type_map, key)
              IN  T # NullPtr =>
                    /\ get_by_type(instance.invert_data_type_map, DataTypeNullable(T))
                           = get_by_type(instance.invert_data_type_map, T)
                    /\ get_by_type(instance.invert_data_type_map, T) = key
                    /\ get_by_type(instance.invert_data_type_map,
                                   DataTypeNullable(DataTypeNullable(T)))
                           = empty_string
    /\ \A t \in Threads :
          (/\ arg[t] \in DOMAIN base_type_map
           /\ ret[t] # NullPtr
           /\ targ[t] # NullPtr) =>
              /\ targ[t] \in {ret[t], DataTypeNullable(ret[t])}
                    => tname[t] = arg[t]
              /\ targ[t] = DataTypeNullable(DataTypeNullable(ret[t]))
                    => tname[t] = empty_string

\* C4 witness: a thread got T = get(P) for a primitive P, passed Nullable(T)
\* to get(type) and got P back.
C4_Witness ==
    \E t \in Threads :
        /\ arg[t] \in DOMAIN base_type_map
        /\ ret[t] = <<arg[t]>>
        /\ targ[t] = DataTypeNullable(ret[t])
        /\ tname[t] = arg[t]

\* C5: after population, for every primitive P the names P, Array(P) and
\* Array(Nullable(P)) are in the forward map and in the inverse list,
\* get(Array(P)) is an Array of get(P) and get(Array(Nullable(P))) is an Array
\* of a Nullable of get(P).
C5_ArrayWrappers ==
    oc = "ready" =>
        \A key \in DOMAIN base_type_map :
            LET T  == get_by_name(instance.data_type_map, key)
                A  == get_by_name(instance.data_type_map, ArrayName(key))
                AN == get_by_name(instance.data_type_map, ArrayNullableName(key))
            IN  /\ NamesOf(key) \subseteq DOMAIN instance.data_type_map
                /\ \A n \in NamesOf(key) :
                      InInverse(instance.invert_data_type_map, n)
                /\ T # NullPtr
                /\ A # NullPtr
                /\ Head(A) = "Array"
                /\ equals(get_nested_type(A), T)
                /\ AN # NullPtr
                /\ Head(AN) = "Array"
                /\ is_nullable(get_nested_type(AN))
                /\ equals(get_nested_type(get_nested_type(AN)), T)

\* C6: to_string and to_pb_column_meta on an object whose type or column is
\* absent end with an explicit precondition-violation error.
C6_FailFast ==
    (/\ out.op \in {"to_string", "to_pb_column_meta"}
     /\ (lhs.type = NullType \/ lhs.column = NullColumn))
        => out.status = "precondition_error"

SameSchema(a, b) ==
    /\ a.name = b.name
    /\ \/ (a.type = NullType /\ b.type = NullType)
       \/ (/\ a.type # NullType
           /\ b.type # NullType
           /\ Deref(a.type) = Deref(b.type))
    /\ \/ (a.column = NullColumn /\ b.column = NullColumn)
       \/ (/\ a.column # NullColumn
           /\ b.column # NullColumn
           /\ a.column[1].name = b.column[1].name)

OneSided(a, b) ==
    \/ (a.type = NullType) # (b.type = NullType)
    \/ (a.column = NullColumn) # (b.column = NullColumn)

\* C7: operator== is reflexive and symmetric whatever is present or absent;
\* objects with equal names, types both absent or structurally equal, and
\* columns both absent or of the same get_name() are equal whatever their
\* rows; a type or column present on one side only makes them unequal.
C7_SchemaEquality ==
    /\ operator_eq(lhs, lhs)
    /\ operator_eq(rhs, rhs)
    /\ operator_eq(lhs, rhs) = operator_eq(rhs, lhs)
    /\ SameSchema(lhs, rhs) => operator_eq(lhs, rhs)
    /\ OneSided(lhs, rhs) => ~operator_eq(lhs, rhs)
    /\ out.op = "operator==" =>
          /\ out.flag = out.rev
          /\ SameSchema(lhs, rhs) => out.flag
          /\ OneSided(lhs, rhs) => ~out.flag

\* C7 witness: two objects with distinct type objects of equal structure and
\* columns of the same kind but different rows compared equal.
C7_Witness ==
    /\ out.op = "operator=="
    /\ out.flag
    /\ lhs.type # NullType
    /\ lhs.type # rhs.type
    /\ lhs.column # NullColumn
    /\ rhs.column # NullColumn
    /\ lhs.column[1].data # rhs.column[1].data

\* C8: clone_empty returns the same name, the same type object and, for a
\* column, a column of no rows with the same get_name() (none when the source
\* has none); the source is as it was.
C8_CloneEmpty ==
    out.op = "clone_empty" =>
        /\ out.res.name = out.src.name
        /\ out.res.type = out.src.type
        /\ out.src.column = NullColumn => out.res.column = NullColumn
        /\ out.src.column # NullColumn =>
              /\ out.res.column # NullColumn
              /\ col_size(out.res.column[1]) = 0
              /\ col_get_name(out.res.column[1]) = col_get_name(out.src.column[1])
        /\ lhs = out.src

\* C8 witness: clone_empty ran on an object with a type and a column of rows.
C8_Witness ==
    /\ out.op = "clone_empty"
    /\ out.src.type # NullType
    /\ out.src.column # NullColumn
    /\ col_size(out.src.column[1]) > 0
    /\ out.res.column # NullColumn
    /\ col_size(out.res.column[1]) = 0

\* C9: dump_structure always returns, and its text is the name (or
\* "[Anonymous Column]"), a space, the type's name (or "nullptr"), a space,
\* the column's dump (or "nullptr"); for an empty name with no type and no
\* column it is "[Anonymous Column] nullptr nullptr".
C9_DumpStructure ==
    out.op = "dump_structure" =>
        LET nameField == IF lhs.name = "" THEN "[Anonymous Column]" ELSE lhs.name
            typeField == IF lhs.type = NullType THEN "nullptr"
                         ELSE type_get_name(Deref(lhs.type))
            colField  == IF lhs.column = NullColumn THEN "nullptr"
                         ELSE col_dump_structure(lhs.column[1])
        IN  /\ out.status = "ok"
            /\ out.text = nameField \o " " \o typeField \o " " \o colField
            /\ lhs = NoColumn => out.text = "[Anonymous Column] nullptr nullptr"

\* C9 witness: dump_structure ran on {name: "", type: absent, column: absent}.
C9_Witness ==
    /\ out.op = "dump_structure"
    /\ lhs = NoColumn
    /\ out.text = "[Anonymous Column] nullptr nullptr"

\* C10: in every state after population, for every registered name n,
\* get(get(n)) = n.
C10_RoundTrip ==
    oc = "ready" =>
        \A n \in RegisteredNames :
            LET T == get_by_name(instance.data_type_map, n)
            IN  /\ T # NullPtr
                /\ get_by_type(instance.invert_data_type_map, T) = n

=============================================================================
